---- MODULE Spec2Model ----
(***************************************************************************)
(* A model of bid_ask_service: the depth-bounded side containers           *)
(* (BTreeSetOrderBook), the aggregator's consumer loop, and the Binance    *)
(* and Bitstamp adaptors (stream task and handler task).                   *)
(*                                                                         *)
(* Prices and quantities are f64 in the source; the model uses small       *)
(* naturals, on which comparison and subtraction are exact.                *)
(***************************************************************************)
EXTENDS Integers, Sequences, FiniteSets, TLC

\* ------------------------------------------------------------------ bounds
MaxPrice == 2
MaxQty == 2
MaxDepth == 3
MaxUpdates == 3
MaxId == 2
MaxFrames == 3
MaxConnects == 2
StreamBuffer == 2
MaxBestN == 3
MaxBatchLevels == 2
MaxBatches == 4
MaxMicro == 3
MicrosPerSecond == 2
MaxSummaryBuffer == 3
MaxPublished == 5
MaxSubscribers == 2
MaxPieces == 3
MaxVenueUpdates == 2
PriceLevelBuffer == 1
MaxForwarded == 2

\* ------------------------------------------------------------ value types
\* enum Exchange { Bitstamp, Binance }, in declaration order (derive(Ord)).
Exchanges == <<"Bitstamp", "Binance">>

ExchangeSet == {Exchanges[i] : i \in DOMAIN Exchanges}

ExchangeRank(e) == CHOOSE i \in DOMAIN Exchanges : Exchanges[i] = e

Prices == 1..MaxPrice

Quantities == 0..MaxQty

\* Bid::new / Ask::new: a price level of one venue.
Level(p, q, e) == [price |-> p, quantity |-> q, exchange |-> e]

Levels == [price : Prices, quantity : Quantities, exchange : ExchangeSet]

\* Ord::cmp on OrderedFloat / on the derived Exchange order.
NumCmp(a, b) == IF a < b THEN "Less" ELSE IF a > b THEN "Greater" ELSE "Equal"

Reverse(o) == IF o = "Less" THEN "Greater" ELSE IF o = "Greater" THEN "Less" ELSE "Equal"

ExchangeCmp(a, b) == NumCmp(ExchangeRank(a), ExchangeRank(b))

\* The innermost match of Bid::cmp: equal quantities of two venues give Less.
BidQuantityArmFlipped(self, other) ==
    LET byQty == NumCmp(self.quantity, other.quantity)
    IN  IF byQty = "Equal" THEN "Greater" ELSE byQty

BidQuantityArm(self, other) ==
    LET byQty == NumCmp(self.quantity, other.quantity)
    IN  IF byQty = "Equal" THEN "Less" ELSE byQty

\* impl Ord for Bid
BidCmp(self, other) ==
    LET byPrice == NumCmp(self.price, other.price)
    IN  IF byPrice = "Equal"
        THEN IF ExchangeCmp(self.exchange, other.exchange) = "Equal"
             THEN "Equal"
             ELSE BidQuantityArm(self, other)
        ELSE byPrice

\* Ask::cmp without the reversals: the order of the bids.
AskCmpUnreversed(self, other) == BidCmp(self, other)

\* impl Ord for Ask: the exchange and quantity comparisons are reversed.
AskCmp(self, other) ==
    LET byPrice == NumCmp(self.price, other.price)
    IN  IF byPrice = "Equal"
        THEN IF Reverse(ExchangeCmp(self.exchange, other.exchange)) = "Equal"
             THEN "Equal"
             ELSE LET byQty == Reverse(NumCmp(self.quantity, other.quantity))
                  IN  IF byQty = "Equal" THEN "Less" ELSE byQty
        ELSE byPrice

\* ------------------------------------------------- BTreeSet, as one leaf node
\* A BTreeSet of at most 11 keys is a single leaf: its keys in stored order,
\* searched from the left (search_node): Greater goes on, Equal is a hit,
\* Less stops at the edge where the key would be inserted.
SideCmp(side, key, k) == IF side = "bid" THEN BidCmp(key, k) ELSE AskCmp(key, k)

RECURSIVE SearchFrom(_, _, _, _)
SearchFrom(side, set, key, i) ==
    IF i > Len(set) THEN [found |-> FALSE, idx |-> i]
    ELSE LET o == SideCmp(side, key, set[i])
         IN  IF o = "Greater" THEN SearchFrom(side, set, key, i + 1)
             ELSE IF o = "Equal" THEN [found |-> TRUE, idx |-> i]
             ELSE [found |-> FALSE, idx |-> i]

search_node(side, set, key) == SearchFrom(side, set, key, 1)

RemoveAt(set, i) == SubSeq(set, 1, i - 1) \o SubSeq(set, i + 1, Len(set))

InsertAt(set, i, key) == SubSeq(set, 1, i - 1) \o <<key>> \o SubSeq(set, i, Len(set))

\* BTreeSet::contains
Contains(side, set, key) == search_node(side, set, key).found

\* BTreeSet::remove
Remove(side, set, key) ==
    LET r == search_node(side, set, key)
    IN  IF r.found THEN RemoveAt(set, r.idx) ELSE set

\* BTreeSet::insert: an equal key already in the set is kept as it is.
Insert(side, set, key) ==
    LET r == search_node(side, set, key)
    IN  IF r.found THEN set ELSE InsertAt(set, r.idx, key)

\* BTreeSet::pop_first / pop_last
PopFirst(set) == SubSeq(set, 2, Len(set))

PopLast(set) == SubSeq(set, 1, Len(set) - 1)

\* --------------------------------------------------------- BTreeSetOrderBook
\* The full-container arm of update_bids without the eviction of the worst bid.
BidsAtDepthNoEvict(bids, bid) ==
    IF BidCmp(bid, bids[1]) = "Greater" THEN Insert("bid", bids, bid) ELSE bids

\* update_bids, the arm taken when bids.len() >= max_depth.
BidsAtDepth(bids, bid) ==
    IF BidCmp(bid, bids[1]) = "Greater"
    THEN Insert("bid", PopFirst(bids), bid)
    ELSE bids

\* update_bids without the quantity test: a level of quantity 0 is stored too.
update_bids_storing_zero(bids, bid, max_depth) ==
    IF Len(bids) < max_depth
    THEN IF Contains("bid", bids, bid)
         THEN Insert("bid", Remove("bid", bids, bid), bid)
         ELSE Insert("bid", bids, bid)
    ELSE BidsAtDepth(bids, bid)

\* BTreeSetOrderBook::update_bids (max_depth >= 1, or the container non-empty).
update_bids(bids, bid, max_depth) ==
    IF bid.quantity = 0 THEN Remove("bid", bids, bid)
    ELSE IF Len(bids) < max_depth
    THEN IF Contains("bid", bids, bid)
         THEN Insert("bid", Remove("bid", bids, bid), bid)
         ELSE Insert("bid", bids, bid)
    ELSE BidsAtDepth(bids, bid)

\* The full-container arm of update_asks without the test against the worst ask.
AsksAtDepthAlwaysEvict(asks, ask) == Insert("ask", PopLast(asks), ask)

\* update_asks, the arm taken when asks.len() >= max_depth.
AsksAtDepth(asks, ask) ==
    IF AskCmp(ask, asks[Len(asks)]) = "Less"
    THEN Insert("ask", PopLast(asks), ask)
    ELSE asks

\* BTreeSetOrderBook::update_asks (max_depth >= 1, or the container non-empty).
update_asks(asks, ask, max_depth) ==
    IF ask.quantity = 0 THEN Remove("ask", asks, ask)
    ELSE IF Len(asks) < max_depth
    THEN IF Contains("ask", asks, ask)
         THEN Insert("ask", Remove("ask", asks, ask), ask)
         ELSE Insert("ask", asks, ask)
    ELSE AsksAtDepth(asks, ask)

\* ----------------------------------------------------------------- state
VARIABLES
    bids,        \* BTreeSetOrderBook.bids, in stored order (worst first)
    asks,        \* BTreeSetOrderBook.asks, in stored order (best first)
    max_depth,   \* the max_depth every update is called with
    op,          \* the last update applied: its side and level
    n_updates    \* how many updates were applied

VARIABLES
    stream_pc,            \* where the stream task stands
    pending,              \* the message the stream task is sending
    conn,                 \* how many websocket connections were established
    n_frames,             \* how many frames were read from the socket
    sentinel_conn,        \* the connection of the last sentinel enqueued
    ws_chan,              \* ws_stream_tx -> ws_stream_rx, oldest first
    handler_pc,           \* "running", or how the handler task ended
    last_update_id,       \* the Binance handler's watermark
    last_microtimestamp,  \* the Bitstamp handler's watermark
    handled,              \* the last message the handler took, and what it did
    snap_conn,            \* the connection of the last snapshot forwarded
    n_forwarded,          \* how many PriceLevelUpdates the handler has sent
    fwd_id                \* the id of the last one: snapshot id or final_id

VARIABLES
    agg_pc,          \* "running", or how the aggregator task ended
    best_n_orders,   \* the best_n_orders the aggregator was spawned with
    best_bid_price,  \* the aggregator's locals, as in the source
    best_ask_price,
    best_n_bids,
    best_n_asks,
    last_bid,
    last_ask,
    summary,         \* the last Summary sent on summary_tx
    n_batches        \* how many PriceLevelUpdates the aggregator received

VARIABLES
    summary_buffer,  \* the capacity the broadcast channel was created with
    tail_pos,        \* how many summaries the channel has accepted
    server_pc,       \* "serving", or how the gRPC server task ended
    subs             \* per subscriber: its BookSummaryStream and what it saw

VARIABLES
    main_pc,         \* where main stands
    tasks,           \* per spawned task: "running", or how it terminated
    selected,        \* the task whose join handle select_all returned
    main_result      \* what main returned

VARIABLES
    exchanges_arg,   \* the string given to parse_exchanges, in pieces
    parsed,          \* what parse_exchanges returned
    cmp_args,        \* the levels given to Bid::cmp and Ask::cmp
    cmp_out          \* what the comparisons returned

VARIABLES
    venue_updates,   \* per venue, the updates it has still to deliver
    price_chan,      \* price_level_tx -> price_level_rx, oldest first
    applied          \* the last PriceLevelUpdate the aggregator received

bookVars == <<bids, asks, max_depth, op, n_updates>>

callVars == <<exchanges_arg, parsed, cmp_args, cmp_out>>

driverVars == <<venue_updates, price_chan, applied>>

serverVars == <<summary_buffer, tail_pos, server_pc, subs>>

mainVars == <<main_pc, tasks, selected, main_result>>

serviceVars == <<serverVars, mainVars, callVars>>

aggVars ==
    <<agg_pc, best_n_orders, best_bid_price, best_ask_price, best_n_bids,
      best_n_asks, last_bid, last_ask, summary, n_batches>>

streamVars == <<stream_pc, pending, conn, n_frames, sentinel_conn>>

handlerVars ==
    <<handler_pc, last_update_id, last_microtimestamp, handled, snap_conn,
      n_forwarded, fwd_id>>

adaptorVars == <<streamVars, ws_chan, handlerVars>>

vars == <<bookVars, adaptorVars, aggVars, serviceVars, driverVars>>

NoMsg == [type |-> "none"]

NoSummary == [published |-> FALSE]

\* f64::MAX, above every price and every difference of prices of the model.
F64Max == 1000

\* Bid::default() and Ask::default()
DefaultBid == Level(0, 0, "Binance")

DefaultAsk == Level(F64Max, 0, "Binance")

\* No aggregator is spawned.
AggIdle ==
    /\ agg_pc = "off"
    /\ best_n_orders = 0
    /\ best_bid_price = 0
    /\ best_ask_price = F64Max
    /\ best_n_bids = <<>>
    /\ best_n_asks = <<>>
    /\ last_bid = DefaultBid
    /\ last_ask = DefaultAsk
    /\ summary = NoSummary
    /\ n_batches = 0

\* No adaptor is spawned.
AdaptorIdle ==
    /\ stream_pc = "off"
    /\ pending = NoMsg
    /\ conn = 0
    /\ n_frames = 0
    /\ sentinel_conn = 0
    /\ ws_chan = <<>>
    /\ handler_pc = "off"
    /\ last_update_id = 0
    /\ last_microtimestamp = 0
    /\ handled = NoMsg
    /\ snap_conn = 0
    /\ n_forwarded = 0
    /\ fwd_id = 0

NoOp == [side |-> "none"]

\* No gRPC service is built.
ServerIdle ==
    /\ summary_buffer = 0
    /\ tail_pos = 0
    /\ server_pc = "off"
    /\ subs = <<>>

\* main has not returned.
NoResult == [kind |-> "none", report |-> ""]

\* main is not running.
MainIdle ==
    /\ main_pc = "off"
    /\ tasks = <<>>
    /\ selected = 0
    /\ main_result = NoResult

\* No parse or comparison was called.
NoParse == [kind |-> "none", exchanges |-> <<>>]

CallIdle ==
    /\ exchanges_arg = <<>>
    /\ parsed = NoParse
    /\ cmp_args = <<>>
    /\ cmp_out = <<>>

\* No update is waiting on its way to the aggregator.
NoUpdate == [kind |-> "none"]

DriverIdle ==
    /\ venue_updates = <<>>
    /\ price_chan = <<>>
    /\ applied = NoUpdate

ServiceIdle == ServerIdle /\ MainIdle /\ CallIdle /\ DriverIdle

BookInit ==
    /\ bids = <<>>
    /\ asks = <<>>
    /\ max_depth \in 1..MaxDepth
    /\ op = NoOp
    /\ n_updates = 0
    /\ AdaptorIdle
    /\ AggIdle
    /\ ServiceIdle

\* update_bids reaches self.bids.iter().next().unwrap() on an empty set: the
\* level is not a deletion, len() < max_depth is false and there is no entry.
update_bids_panics(set, bid, depth) ==
    bid.quantity # 0 /\ ~(Len(set) < depth) /\ set = <<>>

\* update_asks reaches self.asks.iter().next_back().unwrap() on an empty set.
update_asks_panics(set, ask, depth) ==
    ask.quantity # 0 /\ ~(Len(set) < depth) /\ set = <<>>

\* One call of update_bids: it returns, or panics on the unwrap.
UpdateBids(bid) ==
    /\ n_updates < MaxUpdates
    /\ op.side # "panicked"
    /\ IF update_bids_panics(bids, bid, max_depth)
       THEN /\ op' = [side |-> "panicked", level |-> bid]
            /\ UNCHANGED bids
       ELSE /\ bids' = update_bids(bids, bid, max_depth)
            /\ op' = [side |-> "bid", level |-> bid]
    /\ n_updates' = n_updates + 1
    /\ UNCHANGED <<asks, max_depth, adaptorVars, aggVars, serviceVars>>

\* One call of update_asks: it returns, or panics on the unwrap.
UpdateAsks(ask) ==
    /\ n_updates < MaxUpdates
    /\ op.side # "panicked"
    /\ IF update_asks_panics(asks, ask, max_depth)
       THEN /\ op' = [side |-> "panicked", level |-> ask]
            /\ UNCHANGED asks
       ELSE /\ asks' = update_asks(asks, ask, max_depth)
            /\ op' = [side |-> "ask", level |-> ask]
    /\ n_updates' = n_updates + 1
    /\ UNCHANGED <<bids, max_depth, adaptorVars, aggVars, serviceVars>>

BookNext ==
    \/ \E bid \in Levels : UpdateBids(bid) /\ UNCHANGED driverVars
    \/ \E ask \in Levels : UpdateAsks(ask) /\ UNCHANGED driverVars

SpecBook == BookInit /\ [][BookNext]_vars

\* The container called with any max_depth, 0 included.
BookInitAnyDepth ==
    /\ bids = <<>>
    /\ asks = <<>>
    /\ max_depth \in 0..MaxDepth
    /\ op = NoOp
    /\ n_updates = 0
    /\ AdaptorIdle
    /\ AggIdle
    /\ ServiceIdle

SpecBookAnyDepth == BookInitAnyDepth /\ [][BookNext]_vars

\* ------------------------------------------------------- container claims
SameKey(a, b) == a.price = b.price /\ a.exchange = b.exchange

KeysUnique(set) ==
    \A i, j \in 1..Len(set) : SameKey(set[i], set[j]) => i = j

\* C1: no two entries on the same side share the same (price, venue).
C1_KeyUniqueness == KeysUnique(bids) /\ KeysUnique(asks)

\* The entries of a side whose (price, venue) differs from the key's, in order.
Others(set, key) == SelectSeq(set, LAMBDA x : ~SameKey(x, key))

\* The entries of a side with the key's (price, venue), in order.
Matching(set, key) == SelectSeq(set, LAMBDA x : SameKey(x, key))

Range(set) == {set[i] : i \in 1..Len(set)}

NonZeroLevels == {l \in Levels : l.quantity # 0}

ZeroLevels == {l \in Levels : l.quantity = 0}

\* C2: update(v1) then update(v2), v1 and v2 with one (price, venue) and
\* non-zero quantities, leaves exactly one entry for that key, carrying v2's
\* quantity, and removes no entry with another key. Stated for the case the
\* claim surely covers: the side is below max_depth at both updates, so that
\* no eviction is due.
C2_Replacement ==
    \A v1, v2 \in NonZeroLevels :
        SameKey(v1, v2) =>
            LET b1 == update_bids(bids, v1, max_depth)
                b2 == update_bids(b1, v2, max_depth)
                a1 == update_asks(asks, v1, max_depth)
                a2 == update_asks(a1, v2, max_depth)
            IN  /\ (Len(bids) < max_depth /\ Len(b1) < max_depth) =>
                       /\ Matching(b2, v2) = <<v2>>
                       /\ Range(Others(bids, v2)) \subseteq Range(b2)
                /\ (Len(asks) < max_depth /\ Len(a1) < max_depth) =>
                       /\ Matching(a2, v2) = <<v2>>
                       /\ Range(Others(asks, v2)) \subseteq Range(a2)

\* C3: an update with quantity 0 leaves no entry with the level's
\* (price, venue) on its side and leaves every other entry unchanged.
C3_DeletionByZero ==
    \A z \in ZeroLevels :
        LET b == update_bids(bids, z, max_depth)
            a == update_asks(asks, z, max_depth)
        IN  /\ Matching(b, z) = <<>>
            /\ Others(b, z) = Others(bids, z)
            /\ Matching(a, z) = <<>>
            /\ Others(a, z) = Others(asks, z)

\* C4: with one max_depth >= 1 throughout, each side holds at most max_depth
\* entries.
C4_DepthBound == Len(bids) <= max_depth /\ Len(asks) <= max_depth

\* A bid was just accepted into a full bid side (the worst bid was evicted),
\* or an ask into a full ask side.
C4_Witness ==
    /\ n_updates > max_depth
    /\ \/ /\ op.side = "bid"
          /\ Len(bids) = max_depth
          /\ bids[Len(bids)] = op.level
       \/ /\ op.side = "ask"
          /\ Len(asks) = max_depth
          /\ asks[1] = op.level

\* ====================================================== exchange adaptors
\* Update ids are u64 in the source. The one addition, last_update_id + 1, is
\* evaluated only after final_updated_id > last_update_id, so it cannot wrap.
Ids == 0..MaxId

\* Message::Binary(GET_ORDER_BOOK_SNAPSHOT): the snapshot-request sentinel.
Sentinel(c) == [type |-> "binary", conn |-> c]

\* Message::Text of a Binance depthUpdate event with ids U and u.
DepthUpdate(c, first, final) ==
    [type |-> "text", event |-> "depthUpdate", conn |-> c,
     first_update_id |-> first, final_updated_id |-> final]

\* Message::Text that parses but is another event, or does not parse.
OtherText(c, ev) == [type |-> "text", event |-> ev, conn |-> c]

\* What the Binance socket can deliver as a text frame on connection c.
BinanceTexts(c) ==
    {DepthUpdate(c, f, u) : f \in Ids, u \in Ids}
        \cup {OtherText(c, "other"), OtherText(c, "unparsable")}

\* ------------------------------------------------------------ stream task
\* Right after connect_async: only the first connection requests a snapshot.
AfterConnectFirstOnly(c) ==
    IF c = 1 THEN [pc |-> "sending", pending |-> Sentinel(c)]
    ELSE [pc |-> "reading", pending |-> NoMsg]

\* Right after connect_async: the sentinel is sent before the socket is read.
AfterConnect(c) == [pc |-> "sending", pending |-> Sentinel(c)]

\* connect_async succeeded (for Bitstamp: and the subscribe message was sent).
StreamConnectOk ==
    /\ stream_pc = "connecting"
    /\ conn < MaxConnects
    /\ conn' = conn + 1
    /\ stream_pc' = AfterConnect(conn + 1).pc
    /\ pending' = AfterConnect(conn + 1).pending
    /\ UNCHANGED <<n_frames, sentinel_conn, ws_chan, handlerVars, bookVars, aggVars, serviceVars, driverVars>>

\* connect_async failed: map_err(TungsteniteError)? ends the stream task.
StreamConnectFail ==
    /\ stream_pc = "connecting"
    /\ stream_pc' = "failed"
    /\ UNCHANGED <<pending, conn, n_frames, sentinel_conn, ws_chan, handlerVars,
                   bookVars, aggVars, serviceVars, driverVars>>

\* ws_stream_tx.send(..).await: waits for room; fails once the receiver is gone.
StreamSend ==
    /\ stream_pc = "sending"
    /\ IF handler_pc # "running"
       THEN /\ stream_pc' = "failed"
            /\ UNCHANGED ws_chan
       ELSE /\ Len(ws_chan) < StreamBuffer
            /\ ws_chan' = Append(ws_chan, pending)
            /\ stream_pc' = "reading"
    /\ sentinel_conn' =
           IF handler_pc = "running" /\ pending.type = "binary"
           THEN pending.conn ELSE sentinel_conn
    /\ pending' = NoMsg
    /\ UNCHANGED <<conn, n_frames, handlerVars, bookVars, aggVars, serviceVars, driverVars>>

\* order_book_stream.next() gave Message::Text.
StreamReadText(msg) ==
    /\ stream_pc = "reading"
    /\ n_frames < MaxFrames
    /\ n_frames' = n_frames + 1
    /\ stream_pc' = "sending"
    /\ pending' = msg
    /\ UNCHANGED <<conn, sentinel_conn, ws_chan, handlerVars, bookVars, aggVars, serviceVars, driverVars>>

\* Message::Ping (a pong is written to the socket) or any other message.
StreamReadPingOrOther ==
    /\ stream_pc = "reading"
    /\ n_frames < MaxFrames
    /\ n_frames' = n_frames + 1
    /\ UNCHANGED <<stream_pc, pending, conn, sentinel_conn, ws_chan, handlerVars,
                   bookVars, aggVars, serviceVars, driverVars>>

\* Message::Close, the end of the stream or a read error: reconnect.
StreamReadCloseOrEnd ==
    /\ stream_pc = "reading"
    /\ n_frames < MaxFrames
    /\ n_frames' = n_frames + 1
    /\ stream_pc' = "connecting"
    /\ UNCHANGED <<pending, conn, sentinel_conn, ws_chan, handlerVars, bookVars, aggVars, serviceVars, driverVars>>

\* ------------------------------------------------- Binance handler task
\* The handler's decision on a depthUpdate, with a gap tolerated as stale.
BinanceDecideNoGap(first, final, last) ==
    IF final <= last THEN "stale"
    ELSE IF first <= last + 1 /\ final > last THEN "forward"
    ELSE "stale"

\* The handler's decision on a depthUpdate with ids first..final.
BinanceDecide(first, final, last) ==
    IF final <= last THEN "stale"
    ELSE IF first <= last + 1 /\ final > last THEN "forward"
    ELSE "InvalidUpdateId"

\* The watermark is moved to final_id whatever was decided, unless refused.
BinanceAdvanceOnStale(decision, final, last) ==
    IF decision = "InvalidUpdateId" THEN last ELSE final

\* The watermark is not moved after a delta was forwarded.
BinanceAdvanceNever(decision, final, last) == last

\* last_update_id after a depthUpdate was dealt with.
BinanceAdvance(decision, final, last) ==
    IF decision = "forward" THEN final ELSE last

\* What the handler did with msg, for the record in handled.
Handled(msg, outcome) ==
    [msg |-> msg, outcome |-> outcome, last_update_id |-> last_update_id,
     last_microtimestamp |-> last_microtimestamp, fwd_id |-> fwd_id,
     snap_conn |-> snap_conn, n_forwarded |-> n_forwarded]

\* The sentinel: fetch the snapshot, forward it, reset the watermark.
BinanceHandleSentinel ==
    /\ handler_pc = "running"
    /\ ws_chan # <<>>
    /\ Head(ws_chan).type = "binary"
    /\ ws_chan' = Tail(ws_chan)
    /\ \/ \E id \in Ids :
            /\ handled' = Handled(Head(ws_chan), "snapshot")
            /\ n_forwarded' = n_forwarded + 1
            /\ last_update_id' = id
            /\ fwd_id' = id
            /\ snap_conn' = Head(ws_chan).conn
            /\ UNCHANGED handler_pc
       \/ /\ handled' = Handled(Head(ws_chan), "SnapshotError")
          /\ handler_pc' = "SnapshotError"
          /\ UNCHANGED <<n_forwarded, last_update_id, fwd_id, snap_conn>>
    /\ UNCHANGED <<streamVars, last_microtimestamp, bookVars, aggVars, serviceVars, driverVars>>

\* A text frame: parse it; a depthUpdate is dropped, forwarded or refused.
BinanceHandleText ==
    /\ handler_pc = "running"
    /\ ws_chan # <<>>
    /\ Head(ws_chan).type = "text"
    /\ ws_chan' = Tail(ws_chan)
    /\ LET msg == Head(ws_chan)
       IN  IF msg.event = "unparsable"
           THEN /\ handled' = Handled(msg, "SerdeJsonError")
                /\ handler_pc' = "SerdeJsonError"
                /\ UNCHANGED <<n_forwarded, last_update_id, fwd_id>>
           ELSE IF msg.event # "depthUpdate"
           THEN /\ handled' = Handled(msg, "ignored")
                /\ UNCHANGED <<handler_pc, n_forwarded, last_update_id, fwd_id>>
           ELSE LET d == BinanceDecide(msg.first_update_id,
                                       msg.final_updated_id, last_update_id)
                IN  /\ handled' = Handled(msg, d)
                    /\ handler_pc' =
                           IF d = "InvalidUpdateId" THEN d ELSE handler_pc
                    /\ n_forwarded' =
                           IF d = "forward" THEN n_forwarded + 1 ELSE n_forwarded
                    /\ fwd_id' =
                           IF d = "forward" THEN msg.final_updated_id ELSE fwd_id
                    /\ last_update_id' =
                           BinanceAdvance(d, msg.final_updated_id, last_update_id)
    /\ UNCHANGED <<streamVars, last_microtimestamp, snap_conn, bookVars, aggVars, serviceVars, driverVars>>

\* ws_stream_rx.recv() gives None once the stream task is gone: return Ok.
HandlerChannelClosed ==
    /\ handler_pc = "running"
    /\ ws_chan = <<>>
    /\ stream_pc = "failed"
    /\ handler_pc' = "done"
    /\ UNCHANGED <<streamVars, ws_chan, last_update_id, last_microtimestamp,
                   handled, snap_conn, n_forwarded, fwd_id, bookVars, aggVars, serviceVars, driverVars>>

\* spawn_order_book_service: the stream task and the handler task start.
AdaptorInit ==
    /\ bids = <<>>
    /\ asks = <<>>
    /\ max_depth = MaxDepth
    /\ op = NoOp
    /\ n_updates = 0
    /\ stream_pc = "connecting"
    /\ pending = NoMsg
    /\ conn = 0
    /\ n_frames = 0
    /\ sentinel_conn = 0
    /\ ws_chan = <<>>
    /\ handler_pc = "running"
    /\ last_update_id = 0
    /\ last_microtimestamp = 0
    /\ handled = NoMsg
    /\ snap_conn = 0
    /\ n_forwarded = 0
    /\ fwd_id = 0
    /\ AggIdle
    /\ ServiceIdle

BinanceNext ==
    \/ StreamConnectOk
    \/ StreamConnectFail
    \/ StreamSend
    \/ \E msg \in BinanceTexts(conn) : StreamReadText(msg)
    \/ StreamReadPingOrOther
    \/ StreamReadCloseOrEnd
    \/ BinanceHandleSentinel
    \/ BinanceHandleText
    \/ HandlerChannelClosed

SpecBinance == AdaptorInit /\ [][BinanceNext]_vars

\* ------------------------------------------------- Binance adaptor claims
IsDepthUpdate(h) ==
    /\ h # NoMsg
    /\ h.msg.type = "text"
    /\ h.msg.event = "depthUpdate"

\* C5: every forwarded delta satisfies first_id <= L + 1 <= final_id, where L
\* is the watermark at that moment, which is the id of the latest update
\* forwarded before (snapshot id or final_id); afterwards the watermark is
\* the delta's final_id.
C5_ReconciliationWindow ==
    (IsDepthUpdate(handled) /\ handled.outcome = "forward") =>
        /\ handled.last_update_id = handled.fwd_id
        /\ handled.msg.first_update_id <= handled.last_update_id + 1
        /\ handled.last_update_id + 1 <= handled.msg.final_updated_id
        /\ last_update_id = handled.msg.final_updated_id

\* A delta that overlaps the snapshot (first_id <= L) was forwarded.
C5_Witness ==
    /\ IsDepthUpdate(handled)
    /\ handled.outcome = "forward"
    /\ handled.last_update_id > 0
    /\ handled.msg.first_update_id <= handled.last_update_id

\* The handler ended with InvalidUpdateId on the delta in handled and has
\* sent nothing since it took that delta.
RefusedAndSilent ==
    /\ handler_pc = "InvalidUpdateId"
    /\ n_forwarded = handled.n_forwarded

\* C6 as claimed: a delta with first_id > L + 1 ends the handler with
\* InvalidUpdateId, and neither it nor any later frame is forwarded.
C6_GapFailsClosed ==
    (/\ IsDepthUpdate(handled)
     /\ handled.msg.first_update_id > handled.last_update_id + 1)
        => RefusedAndSilent

\* C6 as amended: a delta with first_id > L + 1 and final_id > L ends the
\* handler with InvalidUpdateId, and neither it nor any later frame is
\* forwarded.
C6_GapBeyondWatermarkFailsClosed ==
    (/\ IsDepthUpdate(handled)
     /\ handled.msg.first_update_id > handled.last_update_id + 1
     /\ handled.msg.final_updated_id > handled.last_update_id)
        => RefusedAndSilent

\* The handler refused a gap while a later frame was waiting in the channel.
C6_Witness ==
    /\ IsDepthUpdate(handled)
    /\ handled.outcome = "InvalidUpdateId"
    /\ handled.msg.first_update_id > handled.last_update_id + 1
    /\ ws_chan # <<>>

\* C10: the sentinel of a connection is enqueued before any text frame of
\* that connection, the handler has forwarded that connection's snapshot and
\* reset its watermark to the snapshot's id before it takes a delta of the
\* connection, and nothing is forwarded before the first snapshot.
C10_SnapshotPrecedesDeltas ==
    /\ stream_pc = "reading" => sentinel_conn = conn
    /\ pending.type = "text" => sentinel_conn = pending.conn
    /\ \A i \in 1..Len(ws_chan) :
           ws_chan[i].type = "text" =>
               /\ sentinel_conn >= ws_chan[i].conn
               /\ \A j \in i..Len(ws_chan) :
                      ws_chan[j] # Sentinel(ws_chan[i].conn)
    /\ (handled # NoMsg /\ handled.msg.type = "text") =>
           handled.snap_conn = handled.msg.conn
    /\ (handled # NoMsg /\ handled.outcome = "snapshot") =>
           /\ snap_conn = handled.msg.conn
           /\ last_update_id = fwd_id
    /\ n_forwarded > 0 => snap_conn >= 1

\* A delta of the second connection was forwarded, after the re-snapshot.
C10_Witness ==
    /\ IsDepthUpdate(handled)
    /\ handled.outcome = "forward"
    /\ handled.msg.conn = 2
    /\ handled.snap_conn = 2

\* ================================================= Bitstamp handler task
\* Microsecond stamps of the venue; the model's second has MicrosPerSecond
\* of them (the venue's has 1,000,000).
Micros == 0..MaxMicro

\* The wire's "timestamp" (seconds) of an update stamped at microsecond m.
SecondsOf(m) == m \div MicrosPerSecond

\* Message::Text of a Bitstamp data event, with both stamps of the wire.
DataEvent(c, m) ==
    [type |-> "text", event |-> "data", conn |-> c,
     timestamp |-> SecondsOf(m), microtimestamp |-> m]

BitstampTexts(c) ==
    {DataEvent(c, m) : m \in Micros}
        \cup {OtherText(c, "other"), OtherText(c, "unparsable")}

\* OrderBookUpdateData: the field microtimestamp is read from the wire's
\* "timestamp" (serde rename = "timestamp").
OrderBookUpdateData(msg) == [microtimestamp |-> msg.timestamp]

\* OrderBookSnapshot: microtimestamp is read from the wire's "microtimestamp".
OrderBookSnapshot(m) == [timestamp |-> SecondsOf(m), microtimestamp |-> m]

\* The handler's decision on a data event.
BitstampDecide(order_book_data, last) ==
    IF order_book_data.microtimestamp <= last THEN "stale" ELSE "forward"

\* The sentinel: fetch the snapshot, forward it, reset the watermark.
BitstampHandleSentinel ==
    /\ handler_pc = "running"
    /\ ws_chan # <<>>
    /\ Head(ws_chan).type = "binary"
    /\ ws_chan' = Tail(ws_chan)
    /\ \/ \E m \in Micros :
            /\ handled' = Handled(Head(ws_chan), "snapshot")
            /\ n_forwarded' = n_forwarded + 1
            /\ last_microtimestamp' = OrderBookSnapshot(m).microtimestamp
            /\ fwd_id' = m
            /\ snap_conn' = Head(ws_chan).conn
            /\ UNCHANGED handler_pc
       \/ /\ handled' = Handled(Head(ws_chan), "SnapshotError")
          /\ handler_pc' = "SnapshotError"
          /\ UNCHANGED <<n_forwarded, last_microtimestamp, fwd_id, snap_conn>>
    /\ UNCHANGED <<streamVars, last_update_id, bookVars, aggVars, serviceVars, driverVars>>

\* A text frame: parse it; a data event is dropped or forwarded.
BitstampHandleText ==
    /\ handler_pc = "running"
    /\ ws_chan # <<>>
    /\ Head(ws_chan).type = "text"
    /\ ws_chan' = Tail(ws_chan)
    /\ LET msg == Head(ws_chan)
       IN  IF msg.event = "unparsable"
           THEN /\ handled' = Handled(msg, "SerdeJsonError")
                /\ handler_pc' = "SerdeJsonError"
                /\ UNCHANGED <<n_forwarded, last_microtimestamp, fwd_id>>
           ELSE IF msg.event # "data"
           THEN /\ handled' = Handled(msg, "ignored")
                /\ UNCHANGED <<handler_pc, n_forwarded, last_microtimestamp,
                               fwd_id>>
           ELSE LET order_book_data == OrderBookUpdateData(msg)
                    d == BitstampDecide(order_book_data, last_microtimestamp)
                IN  /\ handled' = Handled(msg, d)
                    /\ n_forwarded' =
                           IF d = "forward" THEN n_forwarded + 1 ELSE n_forwarded
                    /\ fwd_id' =
                           IF d = "forward" THEN msg.microtimestamp ELSE fwd_id
                    /\ last_microtimestamp' =
                           IF d = "forward" THEN order_book_data.microtimestamp
                           ELSE last_microtimestamp
                    /\ UNCHANGED handler_pc
    /\ UNCHANGED <<streamVars, last_update_id, snap_conn, bookVars, aggVars, serviceVars, driverVars>>

\* The subscribe message could not be written to the new socket:
\* map_err(TungsteniteError)? ends the stream task.
BitstampSubscribeFail ==
    /\ stream_pc = "connecting"
    /\ conn < MaxConnects
    /\ stream_pc' = "failed"
    /\ conn' = conn + 1
    /\ UNCHANGED <<pending, n_frames, sentinel_conn, ws_chan, handlerVars,
                   bookVars, aggVars, serviceVars, driverVars>>

BitstampNext ==
    \/ StreamConnectOk
    \/ StreamConnectFail
    \/ BitstampSubscribeFail
    \/ StreamSend
    \/ \E msg \in BitstampTexts(conn) : StreamReadText(msg)
    \/ StreamReadPingOrOther
    \/ StreamReadCloseOrEnd
    \/ BitstampHandleSentinel
    \/ BitstampHandleText
    \/ HandlerChannelClosed

\* Bitstamp::spawn_order_book_service starts the same two tasks.
SpecBitstamp == AdaptorInit /\ [][BitstampNext]_vars

\* ------------------------------------------------ Bitstamp adaptor claims
IsDataEvent(h) ==
    /\ h # NoMsg
    /\ h.msg.type = "text"
    /\ h.msg.event = "data"

\* C9: a data delta is forwarded if and only if its microtimestamp is greater
\* than last_microtimestamp, the microtimestamp of the latest snapshot or of
\* the last forwarded delta.
C9_BitstampAcceptance ==
    IsDataEvent(handled) =>
        /\ handled.last_microtimestamp = handled.fwd_id
        /\ handled.outcome = "forward" <=>
               handled.msg.microtimestamp > handled.last_microtimestamp

\* ============================================================= aggregator
\* Option<T>: Some(x) is <<x>>, None is <<>>.
Some(x) == <<x>>

None == <<>>

\* impl ToString for Exchange
to_string(e) == IF e = "Bitstamp" THEN "bitstamp" ELSE "binance"

\* The Level of a Summary made from a Bid or an Ask.
SummaryLevel(l) ==
    [price |-> l.price, amount |-> l.quantity, exchange |-> to_string(l.exchange)]

Rev(seq) == [i \in 1..Len(seq) |-> seq[Len(seq) + 1 - i]]

Take(seq, n) == SubSeq(seq, 1, IF n < Len(seq) THEN n ELSE Len(seq))

\* The walk of get_best_n_*: up to n entries as Some, then None up to n slots.
PadToN(seq, n) == [i \in 1..n |-> IF i <= Len(seq) THEN Some(seq[i]) ELSE None]

\* get_best_n_bids walking the set from its first entry.
get_best_n_bids_forwards(set, n) == PadToN(Take(set, n), n)

\* BTreeSetOrderBook::get_best_n_bids: from the last stored entry backwards.
get_best_n_bids(set, n) == PadToN(Take(Rev(set), n), n)

\* get_best_n_asks walking the set from its last entry backwards.
get_best_n_asks_backwards(set, n) == PadToN(Take(Rev(set), n), n)

\* BTreeSetOrderBook::get_best_n_asks: from the first stored entry on.
get_best_n_asks(set, n) == PadToN(Take(set, n), n)

\* BTreeSetOrderBook::get_best_bid
get_best_bid(set) == IF set = <<>> THEN None ELSE Some(set[Len(set)])

\* get_best_ask reading the other end of the set.
get_best_ask_from_back(set) == IF set = <<>> THEN None ELSE Some(set[Len(set)])

\* BTreeSetOrderBook::get_best_ask
get_best_ask(set) == IF set = <<>> THEN None ELSE Some(set[1])

RECURSIVE ApplyBids(_, _, _)
\* The loop over price_level_update.bids: update_bids on each, in order.
ApplyBids(set, batch, depth) ==
    IF batch = <<>> THEN set
    ELSE ApplyBids(update_bids(set, Head(batch), depth), Tail(batch), depth)

RECURSIVE ApplyAsks(_, _, _)
\* The loop over price_level_update.asks: update_asks on each, in order.
ApplyAsks(set, batch, depth) ==
    IF batch = <<>> THEN set
    ELSE ApplyAsks(update_asks(set, Head(batch), depth), Tail(batch), depth)

\* The change-detection test on a bid: bid.cmp(&last_bid).is_ge()
BidTouchesTopN(bid, last) == BidCmp(bid, last) \in {"Greater", "Equal"}

\* The change-detection test on an ask: ask.cmp(&last_ask).is_le()
AskTouchesTopN(ask, last) == AskCmp(ask, last) \in {"Less", "Equal"}

\* How many leading slots of a best-n vector are Some.
LeadingSome(best) ==
    Cardinality({i \in 1..Len(best) : \A j \in 1..i : best[j] # None})

\* The refresh returning the first Some slot as the last one, too.
RefreshFirstAsLast(best) ==
    IF Len(best) = 0 THEN [kind |-> "panic"]
    ELSE IF best[1] = None THEN [kind |-> "none"]
    ELSE LET count == LeadingSome(best)
         IN  IF count = 1 THEN [kind |-> "panic"]
             ELSE [kind |-> "some",
                   levels |-> [i \in 1..count |-> SummaryLevel(best[i][1])],
                   first_price |-> best[1][1].price,
                   last |-> best[1][1]]

\* The tail of bids_fut / asks_fut once a refresh is due: the best-n vector is
\* read; with slot 0 None nothing is returned; otherwise the levels, the
\* first price and the last Some slot are returned. Both are moved out with
\* take(): when only slot 0 is Some, it is taken twice and unwrap() panics.
\* With best_n_orders = 0 the index [0] panics.
Refresh(best) ==
    IF Len(best) = 0 THEN [kind |-> "panic"]
    ELSE IF best[1] = None THEN [kind |-> "none"]
    ELSE LET count == LeadingSome(best)
         IN  IF count = 1 THEN [kind |-> "panic"]
             ELSE [kind |-> "some",
                   levels |-> [i \in 1..count |-> SummaryLevel(best[i][1])],
                   first_price |-> best[1][1].price,
                   last |-> best[count][1]]

\* bids_fut: apply the batch's bids, then refresh if one of them asked for it.
bids_fut(batch) ==
    LET update_best_bids == \E i \in 1..Len(batch) : BidTouchesTopN(batch[i], last_bid)
        after == ApplyBids(bids, batch, max_depth)
    IN  [set |-> after,
         updated |-> IF update_best_bids
                     THEN Refresh(get_best_n_bids(after, best_n_orders))
                     ELSE [kind |-> "none"]]

\* asks_fut: apply the batch's asks, then refresh if one of them asked for it.
asks_fut(batch) ==
    LET update_best_asks == \E i \in 1..Len(batch) : AskTouchesTopN(batch[i], last_ask)
        after == ApplyAsks(asks, batch, max_depth)
    IN  [set |-> after,
         updated |-> IF update_best_asks
                     THEN Refresh(get_best_n_asks(after, best_n_orders))
                     ELSE [kind |-> "none"]]

\* best_ask_price - best_bid_price in f64: f64::MAX less a price is f64::MAX.
F64Sub(a, b) == IF a = F64Max THEN F64Max ELSE a - b

\* One iteration of the consumer loop on one PriceLevelUpdate: both futures,
\* the assignments to the locals, and the Summary sent on summary_tx (the
\* service keeps a receiver, so send succeeds). A panic in bids_fut, which
\* join! polls first, ends the task before asks_fut has run. b and a are the
\* values of updated_bids and updated_asks with the containers they leave.
HandleOrderBookUpdate(price_level_update) ==
    /\ agg_pc = "running"
    /\ n_batches < MaxBatches
    /\ n_batches' = n_batches + 1
    /\ \E b \in {bids_fut(price_level_update.bids)},
          a \in {asks_fut(price_level_update.asks)} :
           /\ bids' = b.set
           /\ asks' = IF b.updated.kind = "panic" THEN asks ELSE a.set
           /\ IF b.updated.kind = "panic" \/ a.updated.kind = "panic"
              THEN /\ agg_pc' = "panicked"
                   /\ UNCHANGED <<best_bid_price, best_ask_price, best_n_bids,
                                  best_n_asks, last_bid, last_ask, summary>>
              ELSE LET bidp == IF b.updated.kind = "some"
                               THEN b.updated.first_price ELSE best_bid_price
                       askp == IF a.updated.kind = "some"
                               THEN a.updated.first_price ELSE best_ask_price
                       nb == IF b.updated.kind = "some"
                             THEN b.updated.levels ELSE best_n_bids
                       na == IF a.updated.kind = "some"
                             THEN a.updated.levels ELSE best_n_asks
                   IN  /\ best_bid_price' = bidp
                       /\ best_ask_price' = askp
                       /\ best_n_bids' = nb
                       /\ best_n_asks' = na
                       /\ last_bid' = IF b.updated.kind = "some"
                                      THEN b.updated.last ELSE last_bid
                       /\ last_ask' = IF a.updated.kind = "some"
                                      THEN a.updated.last ELSE last_ask
                       /\ summary' = [published |-> TRUE,
                                      spread |-> F64Sub(askp, bidp),
                                      bids |-> nb, asks |-> na]
                       /\ UNCHANGED agg_pc
    /\ UNCHANGED <<max_depth, op, n_updates, best_n_orders, adaptorVars,
                   mainVars, callVars>>

\* The (price, quantity) pairs of one venue's batch, n of them in a row.
VenueLevels(e) == {l \in Levels : l.exchange = e}

\* The PriceLevelUpdates a handler can send: the levels of one venue, at most
\* MaxBatchLevels of them over both sides.
BatchesOf(e, nb) ==
    UNION {
        {[bids |-> b, asks |-> a] :
            b \in [1..nb -> VenueLevels(e)], a \in [1..na -> VenueLevels(e)]} :
        na \in 0..(MaxBatchLevels - nb)
    }

PriceLevelUpdates ==
    UNION {BatchesOf(e, nb) : e \in ExchangeSet, nb \in 0..MaxBatchLevels}

AggInit ==
    /\ bids = <<>>
    /\ asks = <<>>
    /\ max_depth = MaxDepth
    /\ op = NoOp
    /\ n_updates = 0
    /\ AdaptorIdle
    /\ agg_pc = "running"
    /\ best_n_orders \in 1..MaxBestN
    /\ best_bid_price = 0
    /\ best_ask_price = F64Max
    /\ best_n_bids = <<>>
    /\ best_n_asks = <<>>
    /\ last_bid = DefaultBid
    /\ last_ask = DefaultAsk
    /\ summary = NoSummary
    /\ n_batches = 0
    /\ ServiceIdle

AggNext ==
    \E u \in PriceLevelUpdates :
        HandleOrderBookUpdate(u) /\ UNCHANGED <<serverVars, driverVars>>

SpecAgg == AggInit /\ [][AggNext]_vars

\* ------------------------------------------------------ aggregator claims
\* The first n levels of a side, best first, as Summary levels.
TopN(best) == LET count == LeadingSome(best)
              IN  [i \in 1..count |-> SummaryLevel(best[i][1])]

\* The state right after a publication: the last iteration sent summary (an
\* iteration that panicked sent nothing).
JustPublished == agg_pc = "running" /\ summary.published

\* C7: cached top-N is never stale: the bids (asks) of the most recently
\* published summary are the first best_n levels of the bid (ask) container,
\* best first, whatever batches were processed, including while the top-N
\* holds fewer than best_n levels.
C7_CachedTopNNeverStale ==
    JustPublished =>
        /\ summary.bids = TopN(get_best_n_bids(bids, best_n_orders))
        /\ summary.asks = TopN(get_best_n_asks(asks, best_n_orders))

\* C8: publication correctness: the spread of every published summary is the
\* price of the best ask in the ask container less the price of the best bid
\* in the bid container, as the containers stand at publication (stated where
\* both containers hold a level, so that both prices exist).
C8_PublicationCorrectness ==
    (JustPublished /\ bids # <<>> /\ asks # <<>>) =>
        summary.spread = get_best_ask(asks)[1].price - get_best_bid(bids)[1].price

\* ------------------------------------- Binance adaptor claims, continued
\* One step of the handler task on the message at the head of ws_stream_rx.
HandlerStep == BinanceHandleSentinel \/ BinanceHandleText

\* C11: gap recovery: a detected ID gap is not the end of the adaptor; the
\* handler goes on to take what the stream task enqueues (the sentinel of the
\* new connection, then deltas), so a message waiting in ws_stream_rx after a
\* gap can still be handled.
C11_GapRecovery ==
    (handler_pc = "InvalidUpdateId" /\ ws_chan # <<>>) => ENABLED HandlerStep


\* The step forwards a depthUpdate to the aggregator channel.
ForwardsDelta ==
    /\ n_forwarded' = n_forwarded + 1
    /\ IsDepthUpdate(handled')
    /\ handled'.outcome = "forward"

\* C12: strict emission order over the adaptor's whole life: the watermark
\* never decreases, not even when a snapshot is applied after a reconnect, and
\* every forwarded delta has a final_id above the watermark, which is at
\* least the final_id of every delta forwarded earlier.
C12_StrictEmissionOrder ==
    [][/\ last_update_id' >= last_update_id
       /\ ForwardsDelta => handled'.msg.final_updated_id > last_update_id]_vars


\* ------------------------------------------- container claims, continued
\* The level with its quantity set to 0.
WithZeroQuantity(l) == Level(l.price, 0, l.exchange)

\* C13: round-trip: on a side that holds fewer than max_depth entries and no
\* entry with the level's (price, venue), update with the level (non-zero
\* quantity) and then with the level at quantity 0 restores the side exactly,
\* for bids and for asks, whatever other venues hold at that price. Stated for
\* sides whose entries have distinct (price, venue) keys.
C13_RoundTrip ==
    \A v \in NonZeroLevels :
        /\ (Len(bids) < max_depth /\ KeysUnique(bids) /\ Matching(bids, v) = <<>>)
               => update_bids(update_bids(bids, v, max_depth),
                              WithZeroQuantity(v), max_depth) = bids
        /\ (Len(asks) < max_depth /\ KeysUnique(asks) /\ Matching(asks, v) = <<>>)
               => update_asks(update_asks(asks, v, max_depth),
                              WithZeroQuantity(v), max_depth) = asks


\* w is a worst entry of the side, its minimum (bids) or maximum (asks): no
\* other entry x is on the worse side of w, by w's comparison with x or by
\* x's comparison with w (the two differ between venues at one price).
IsWorst(side, set, w) ==
    /\ w \in Range(set)
    /\ \A x \in Range(set) \ {w} :
           IF side = "bid"
           THEN SideCmp(side, w, x) # "Greater" \/ SideCmp(side, x, w) # "Less"
           ELSE SideCmp(side, w, x) # "Less" \/ SideCmp(side, x, w) # "Greater"

\* The level is strictly better than w by the side's order.
StrictlyBetter(side, l, w) ==
    SideCmp(side, l, w) = (IF side = "bid" THEN "Greater" ELSE "Less")

\* How many entries of the side are equal to x.
Count(set, x) == Cardinality({i \in 1..Len(set) : set[i] = x})

\* The two sides hold the same entries, each as many times.
SameEntries(s, t) ==
    /\ Len(s) = Len(t)
    /\ \A x \in Range(s) \cup Range(t) : Count(s, x) = Count(t, x)

\* What C14 asks of one side: set before the update, after it, the level v.
\* Where several entries are equally worst, any of them may be the evicted one.
EvictionAtDepth(side, set, after, v) ==
    /\ Len(after) = Len(set)
    /\ \E i \in 1..Len(set) :
           /\ IsWorst(side, set, set[i])
           /\ IF StrictlyBetter(side, v, set[i])
              THEN SameEntries(after, Append(RemoveAt(set, i), v))
              ELSE after = set

\* C14: eviction at depth: on a side holding exactly max_depth entries, an
\* update with a non-zero level whose (price, venue) is not in the container
\* evicts the worst entry and inserts the level if the level is strictly
\* better than the worst entry, and leaves the side unchanged otherwise; the
\* size stays max_depth in both cases.
C14_EvictionAtDepth ==
    \A v \in NonZeroLevels :
        /\ (Len(bids) = max_depth /\ Matching(bids, v) = <<>>)
               => EvictionAtDepth("bid", bids, update_bids(bids, v, max_depth), v)
        /\ (Len(asks) = max_depth /\ Matching(asks, v) = <<>>)
               => EvictionAtDepth("ask", asks, update_asks(asks, v, max_depth), v)


\* A full bid side for which one absent level would evict the worst bid and
\* another absent level would be dropped.
C14_Witness ==
    /\ Len(bids) = max_depth
    /\ \E v \in NonZeroLevels :
           /\ Matching(bids, v) = <<>>
           /\ update_bids(bids, v, max_depth) # bids
    /\ \E v \in NonZeroLevels :
           /\ Matching(bids, v) = <<>>
           /\ update_bids(bids, v, max_depth) = bids


BestByPriceThenQuantity(side, set, best) ==
    /\ best \in Range(set)
    /\ \A x \in Range(set) :
           /\ IF side = "bid" THEN x.price <= best.price
                              ELSE x.price >= best.price
           /\ x.price = best.price => x.quantity <= best.quantity

AtLeastAsGood(side, a, b) ==
    \/ IF side = "bid" THEN a.price > b.price ELSE a.price < b.price
    \/ a.price = b.price /\ a.quantity >= b.quantity

\* The levels of the Some slots of a best-n vector, in order.
SomeLevels(best) == [i \in 1..LeadingSome(best) |-> best[i][1]]

\* What C16 asks of one side: best is the result of get_best_n on set with n.
BestNShape(side, set, best, n) ==
    LET k == IF n < Len(set) THEN n ELSE Len(set)
        found == SomeLevels(best)
    IN  /\ Len(best) = n
        /\ \A i \in 1..n : (best[i] # None) <=> (i <= k)
        /\ Len(found) = k
        /\ \A i, j \in 1..k : i < j => AtLeastAsGood(side, found[i], found[j])
        /\ \E rest \in [1..(Len(set) - k) -> Range(set)] :
               /\ SameEntries(found \o rest, set)
               /\ \A i \in 1..k, j \in 1..Len(rest) :
                      AtLeastAsGood(side, found[i], rest[j])

\* C16: best-N result shape: get_best_n_bids(n) and get_best_n_asks(n) return
\* exactly n slots; the first min(n, size) are Some and hold, best first, the
\* leading levels of the fully sorted side; the remaining slots are None.
C16_BestNShape ==
    \A n \in 0..MaxBestN :
        /\ BestNShape("bid", bids, get_best_n_bids(bids, n), n)
        /\ BestNShape("ask", asks, get_best_n_asks(asks, n), n)


\* The bid side holds levels at two prices and fewer than MaxBestN entries, so
\* that the query cuts the side for n = 1 and pads with None for n = MaxBestN;
\* the ask side holds a level.
C16_Witness ==
    /\ Len(bids) >= 2
    /\ Len(bids) < MaxBestN
    /\ bids[1].price # bids[Len(bids)].price
    /\ asks # <<>>
    /\ get_best_n_bids(bids, MaxBestN)[MaxBestN] = None
    /\ get_best_n_bids(bids, 1) = <<Some(bids[Len(bids)])>>


\* C17: no zero entries: after any sequence of update_bids / update_asks
\* calls, no entry of either side has quantity 0.
C17_NoZeroEntries ==
    /\ \A i \in 1..Len(bids) : bids[i].quantity # 0
    /\ \A i \in 1..Len(asks) : asks[i].quantity # 0

\* An update with quantity 0 was just applied to a bid side that still holds
\* a level.
C17_Witness ==
    /\ op.side = "bid"
    /\ op.level.quantity = 0
    /\ bids # <<>>


\* ------------------------------------------ aggregator claims, continued
\* C18: no one-sided summaries: no summary is published while the bid
\* container or the ask container is empty.
C18_NoOneSidedSummaries ==
    JustPublished => (bids # <<>> /\ asks # <<>>)


\* ------------------------------------------- stream task claims
\* C19: connect failures do not escape: a step of the stream task taken while
\* it is connecting leaves it connecting, or connected and about to send the
\* sentinel; it never ends the task with an error.
C19_ConnectFailuresDoNotEscape ==
    [][stream_pc = "connecting" => stream_pc' \in {"connecting", "sending"}]_vars


\* ------------------------------------------- handler task claims
\* The last message the handler took failed JSON parsing, or was a sentinel
\* whose snapshot request failed.
TransientFailure ==
    /\ handled # NoMsg
    /\ handled.outcome \in {"SerdeJsonError", "SnapshotError"}

\* C20: transient failures are recovered locally: a text frame that fails
\* JSON parsing, or a failed snapshot request, does not end the handler task.
C20_TransientFailuresRecovered == TransientFailure => handler_pc = "running"


\* The last message the handler took is a well-formed text frame of an event
\* kind other than the expected one.
UnrecognizedEvent ==
    /\ handled # NoMsg
    /\ handled.msg.type = "text"
    /\ handled.msg.event = "other"

\* C21: an unrecognized event kind is a protocol violation: the handler ends
\* with an error on such a frame.
C21_UnrecognizedEventFails ==
    UnrecognizedEvent => handler_pc \notin {"running", "done"}


\* The last message the handler took is a depthUpdate whose final_id is not
\* above the watermark the handler had when it took it.
StaleDelta ==
    /\ IsDepthUpdate(handled)
    /\ handled.msg.final_updated_id <= handled.last_update_id

\* C22: stale deltas are dropped without effect: a delta with final_id <= L
\* forwards nothing, leaves the watermark unchanged and lets the handler go on
\* (it is still in its loop, or has left it because the channel was closed).
C22_StaleDeltasDropped ==
    StaleDelta =>
        /\ n_forwarded = handled.n_forwarded
        /\ fwd_id = handled.fwd_id
        /\ last_update_id = handled.last_update_id
        /\ handler_pc \in {"running", "done"}

\* A delta buffered before the snapshot was fetched, older than the snapshot
\* (its final_id is below the snapshot's id), was just dropped.
C22_Witness ==
    /\ StaleDelta
    /\ handled.snap_conn = handled.msg.conn
    /\ handled.n_forwarded = 1
    /\ handled.msg.final_updated_id < handled.last_update_id
    /\ handled.msg.first_update_id <= handled.msg.final_updated_id


\* ---------------------------------------------------------- summary fan-out
\* The aggregator's locals and counters, which the fan-out does not touch.
aggLocals ==
    <<best_n_orders, best_bid_price, best_ask_price, best_n_bids, best_n_asks,
      last_bid, last_ask, summary, n_batches>>

Subscribers == 1..MaxSubscribers

RECURSIVE next_power_of_two(_, _)
next_power_of_two(n, p) == IF p >= n THEN p ELSE next_power_of_two(n, 2 * p)

\* The channel retains one slot less than it was asked for.
CapacityOneLess(buffer) == IF buffer > 1 THEN buffer - 1 ELSE 1

\* tokio::sync::broadcast::channel(summary_buffer): the number of slots of
\* the channel, the requested capacity rounded up to a power of two.
Capacity(buffer) == next_power_of_two(buffer, 1)

\* A summary is identified by its position in the channel: the i-th summary
\* the channel accepted is summary i, counting from 0.
\* Receiver::recv at position next, leaving its position unchanged on Ok.
recv_without_advancing(next, pos, cap) ==
    IF next + cap < pos
    THEN [result |-> "Lagged", value |-> pos - cap - next, next |-> pos - cap]
    ELSE IF next < pos
         THEN [result |-> "Ok", value |-> next, next |-> next]
         ELSE [result |-> "Empty", value |-> 0, next |-> next]

\* Receiver::recv of a receiver at position next, when the channel has
\* accepted pos values and retains the last cap of them: Lagged(missed) moves
\* the receiver to the oldest retained value, Ok(value) moves it by one.
recv(next, pos, cap) ==
    IF next + cap < pos
    THEN [result |-> "Lagged", value |-> pos - cap - next, next |-> pos - cap]
    ELSE IF next < pos
         THEN [result |-> "Ok", value |-> next, next |-> next + 1]
         ELSE [result |-> "Empty", value |-> 0, next |-> next]

\* The closure book_summary maps over the BroadcastStream.
MapSummary(r) ==
    IF r.result = "Ok"
    THEN [ok |-> TRUE, summary |-> r.value]
    ELSE [ok |-> FALSE, code |-> "Internal",
          message |-> "Stream lagged too far behind"]

NoItem == [ok |-> FALSE, code |-> "none", message |-> ""]

\* A subscriber that has not called book_summary.
NoSubscriber ==
    [state |-> "none", subscribed_at |-> 0, next |-> 0, received |-> <<>>,
     lost |-> {}, item |-> NoItem, missed |-> 0, behind |-> 0]

Open == {s \in Subscribers : subs[s].state = "open"}

\* The receivers of the channel: the service's summary_rx while the server
\* task holds the router, and one per open BookSummaryStream.
rx_cnt == (IF server_pc = "serving" THEN 1 ELSE 0) + Cardinality(Open)

\* book_summary: summary_rx.resubscribe() starts at the tail of the channel.
BookSummary(s) ==
    /\ server_pc = "serving"
    /\ subs[s].state = "none"
    /\ subs' = [subs EXCEPT ![s] = [@ EXCEPT !.state = "open",
                                              !.subscribed_at = tail_pos,
                                              !.next = tail_pos]]
    /\ UNCHANGED <<summary_buffer, tail_pos, server_pc, mainVars, callVars, driverVars, bookVars,
                   adaptorVars, aggVars>>

\* The subscriber's stream yields its next item.
StreamNext(s) ==
    /\ subs[s].state = "open"
    /\ \E r \in {recv(subs[s].next, tail_pos, Capacity(summary_buffer))} :
        /\ r.result # "Empty"
        /\ subs' = [subs EXCEPT ![s] =
             IF r.result = "Ok"
             THEN [@ EXCEPT !.next = r.next,
                            !.received = Append(@, r.value),
                            !.item = MapSummary(r)]
             ELSE [@ EXCEPT !.next = r.next,
                            !.lost = @ \cup (subs[s].next..(r.next - 1)),
                            !.item = MapSummary(r),
                            !.missed = r.value,
                            !.behind = tail_pos - subs[s].next]]
    /\ UNCHANGED <<summary_buffer, tail_pos, server_pc, mainVars, callVars, driverVars, bookVars,
                   adaptorVars, aggVars>>

\* The sender is gone and the subscriber has read everything: Closed, which
\* ends the BroadcastStream.
StreamClosed(s) ==
    /\ subs[s].state = "open"
    /\ agg_pc # "running"
    /\ subs[s].next = tail_pos
    /\ subs' = [subs EXCEPT ![s].state = "ended"]
    /\ UNCHANGED <<summary_buffer, tail_pos, server_pc, mainVars, callVars, driverVars, bookVars,
                   adaptorVars, aggVars>>

\* The client goes away and its stream, with its receiver, is dropped.
SubscriberDrop(s) ==
    /\ subs[s].state = "open"
    /\ subs' = [subs EXCEPT ![s].state = "dropped"]
    /\ UNCHANGED <<summary_buffer, tail_pos, server_pc, mainVars, callVars, driverVars, bookVars,
                   adaptorVars, aggVars>>

\* One iteration of the aggregator's loop, up to summary_tx.send(summary)?:
\* send fails when the channel has no receiver, and the task returns the
\* error; otherwise the channel accepts the summary at once.
SummarySend ==
    /\ agg_pc = "running"
    /\ tail_pos < MaxPublished
    /\ IF rx_cnt = 0
       THEN /\ agg_pc' = "SummarySendError"
            /\ UNCHANGED tail_pos
       ELSE /\ tail_pos' = tail_pos + 1
            /\ UNCHANGED agg_pc
    /\ UNCHANGED <<summary_buffer, server_pc, subs, mainVars, callVars, driverVars, bookVars,
                   adaptorVars, aggLocals>>

\* price_level_rx.recv() returns None: the loop ends and the task returns Ok.
PriceLevelChannelClosed ==
    /\ agg_pc = "running"
    /\ agg_pc' = "done"
    /\ UNCHANGED <<serverVars, mainVars, callVars, driverVars, bookVars, adaptorVars, aggLocals>>

\* router.serve(..) fails: the task returns TransportError, and the router
\* with the service and its summary_rx is dropped.
ServeFails ==
    /\ server_pc = "serving"
    /\ server_pc' = "TransportError"
    /\ UNCHANGED <<summary_buffer, tail_pos, subs, mainVars, callVars, driverVars, bookVars,
                   adaptorVars, aggVars>>

\* OrderbookAggregatorService::new, the aggregator and the server spawned.
ServerInit ==
    /\ bids = <<>>
    /\ asks = <<>>
    /\ max_depth = MaxDepth
    /\ op = NoOp
    /\ n_updates = 0
    /\ AdaptorIdle
    /\ agg_pc = "running"
    /\ best_n_orders = 0
    /\ best_bid_price = 0
    /\ best_ask_price = F64Max
    /\ best_n_bids = <<>>
    /\ best_n_asks = <<>>
    /\ last_bid = DefaultBid
    /\ last_ask = DefaultAsk
    /\ summary = NoSummary
    /\ n_batches = 0
    /\ summary_buffer \in 1..MaxSummaryBuffer
    /\ tail_pos = 0
    /\ server_pc = "serving"
    /\ subs = [s \in Subscribers |-> NoSubscriber]
    /\ MainIdle
    /\ CallIdle
    /\ DriverIdle

ServerNext ==
    \/ \E s \in Subscribers : BookSummary(s)
    \/ \E s \in Subscribers : StreamNext(s)
    \/ \E s \in Subscribers : StreamClosed(s)
    \/ \E s \in Subscribers : SubscriberDrop(s)
    \/ SummarySend
    \/ PriceLevelChannelClosed
    \/ ServeFails

SpecServer == ServerInit /\ [][ServerNext]_vars

\* ------------------------------------------------------- fan-out claims
\* The summaries subscriber s has gone past: received or lost.
Passed(s) == subs[s].subscribed_at..(subs[s].next - 1)

Received(s) == {subs[s].received[i] : i \in 1..Len(subs[s].received)}

SawLag(s) == subs[s].item # NoItem /\ ~subs[s].item.ok

\* C24: lag is observable and recoverable: the error a lagging subscriber
\* observes indicates how many summaries it missed, so two subscribers that
\* observe the same error have missed the same number of summaries.
C24_LagIndicatesMissed ==
    \A s, t \in Subscribers :
        (SawLag(s) /\ SawLag(t) /\ subs[s].item = subs[t].item)
            => subs[s].missed = subs[t].missed


\* C25: per-subscriber FIFO: what a subscriber has received is, in
\* publication order and without duplicates, a subsequence of the summaries
\* published after it called book_summary.
C25_PerSubscriberFifo ==
    \A s \in Subscribers :
        /\ \A i \in 1..Len(subs[s].received) :
            /\ subs[s].received[i] >= subs[s].subscribed_at
            /\ subs[s].received[i] < tail_pos
        /\ \A i, j \in 1..Len(subs[s].received) :
            i < j => subs[s].received[i] < subs[s].received[j]

\* A subscriber that arrived after the first summaries has lagged and has
\* received several of the later ones.
C25_Witness ==
    \E s \in Subscribers :
        /\ subs[s].subscribed_at > 0
        /\ subs[s].lost # {}
        /\ Len(subs[s].received) >= 2


\* C26: the aggregator survives an empty audience: a publish that fails
\* because the channel has no live receiver does not terminate the task.
C26_SurvivesEmptyAudience ==
    agg_pc # "SummarySendError"


\* ------------------------------------------------------------- supervisor
\* join_handles, in the order main collects them with all exchanges chosen:
\* a stream task and a handler task per exchange, the aggregator, the server.
TaskNames ==
    <<"bitstamp_stream", "bitstamp_handler", "binance_stream",
      "binance_handler", "aggregator", "grpc_server">>

Tasks == 1..Len(TaskNames)

\* How a JoinHandle<Result<(), BidAskServiceError>> completes: the task
\* returned Ok(()), returned Err(e), or panicked (a JoinError).
Outcomes == {"Ok", "Err", "panicked"}

Terminated == {t \in Tasks : tasks[t] \in Outcomes}

\* main hands the result of the task on as it is.
MainResultOfTask(outcome) ==
    IF outcome = "Ok" THEN [kind |-> "Ok", report |-> ""]
    ELSE IF outcome = "Err" THEN [kind |-> "Err", report |-> "task error"]
    ELSE [kind |-> "Err", report |-> "join error"]

\* The match on future_result that ends main.
MainResult(outcome) ==
    IF outcome = "Ok"
    THEN [kind |-> "Err", report |-> "Program exited unexpectedly"]
    ELSE IF outcome = "Err" THEN [kind |-> "Err", report |-> "task error"]
    ELSE [kind |-> "Err", report |-> "join error"]

\* initialize_tracing(..)?, parse_exchanges(..)? or socket_address.parse()?
\* fails: main returns the error.
MainStartupFails ==
    /\ main_pc = "starting"
    /\ main_pc' = "returned"
    /\ main_result' = [kind |-> "Err", report |-> "startup error"]
    /\ UNCHANGED <<tasks, selected, serverVars, callVars, driverVars, bookVars, adaptorVars, aggVars>>

\* The tasks are spawned and main awaits select_all over their handles.
MainSpawn ==
    /\ main_pc = "starting"
    /\ main_pc' = "awaiting"
    /\ tasks' = [t \in Tasks |-> "running"]
    /\ UNCHANGED <<selected, main_result, serverVars, callVars, driverVars, bookVars, adaptorVars,
                   aggVars>>

\* A spawned task terminates.
TaskTerminates(t, outcome) ==
    /\ main_pc = "awaiting"
    /\ tasks[t] = "running"
    /\ tasks' = [tasks EXCEPT ![t] = outcome]
    /\ UNCHANGED <<main_pc, selected, main_result, serverVars, callVars, driverVars, bookVars,
                   adaptorVars, aggVars>>

\* select_all is polled with a completed handle: it yields the first
\* completed handle in the order of join_handles, and main returns.
MainSelectAll ==
    /\ main_pc = "awaiting"
    /\ Terminated # {}
    /\ \E t \in Terminated :
        /\ \A u \in Terminated : t <= u
        /\ selected' = t
        /\ main_result' = MainResult(tasks[t])
    /\ main_pc' = "returned"
    /\ UNCHANGED <<tasks, serverVars, callVars, driverVars, bookVars, adaptorVars, aggVars>>

MainInit ==
    /\ bids = <<>>
    /\ asks = <<>>
    /\ max_depth = MaxDepth
    /\ op = NoOp
    /\ n_updates = 0
    /\ AdaptorIdle
    /\ AggIdle
    /\ ServerIdle
    /\ CallIdle
    /\ DriverIdle
    /\ main_pc = "starting"
    /\ tasks = [t \in Tasks |-> "unspawned"]
    /\ selected = 0
    /\ main_result = NoResult

MainNext ==
    \/ MainStartupFails
    \/ MainSpawn
    \/ \E t \in Tasks, outcome \in Outcomes : TaskTerminates(t, outcome)
    \/ MainSelectAll

SpecMain == MainInit /\ [][MainNext]_vars

\* C27: main returns as soon as a spawned task has terminated, and whenever
\* it returns its result is an error: the task's error, the join error, or
\* "Program exited unexpectedly" for a task that returned Ok; never Ok.
C27_Supervisor ==
    /\ (main_pc = "awaiting" /\ Terminated # {}) => ENABLED MainSelectAll
    /\ main_pc = "returned" =>
        /\ main_result.kind = "Err"
        /\ selected # 0 =>
            /\ tasks[selected] \in Outcomes
            /\ tasks[selected] = "Ok" =>
                main_result.report = "Program exited unexpectedly"
            /\ tasks[selected] = "Err" => main_result.report = "task error"
            /\ tasks[selected] = "panicked" =>
                main_result.report = "join error"

\* main has returned on the aggregator task having returned Ok while the
\* tasks before it were still running.
C27_Witness ==
    /\ main_pc = "returned"
    /\ selected # 0
    /\ TaskNames[selected] = "aggregator"
    /\ tasks[selected] = "Ok"
    /\ \A t \in 1..(selected - 1) : tasks[t] = "running"
    /\ main_result.report = "Program exited unexpectedly"


\* ------------------------------------- aggregator claims, continued
\* C28: summary shape: in every published summary, bids holds at most best_n
\* levels in non-increasing price order and asks holds at most best_n levels
\* in non-decreasing price order.
C28_SummaryShape ==
    summary.published =>
        /\ Len(summary.bids) <= best_n_orders
        /\ Len(summary.asks) <= best_n_orders
        /\ \A i, j \in 1..Len(summary.bids) :
            i < j => summary.bids[i].price >= summary.bids[j].price
        /\ \A i, j \in 1..Len(summary.asks) :
            i < j => summary.asks[i].price <= summary.asks[j].price

\* A summary was published with best_n levels on each side, at more than one
\* price, cut from sides that hold more than best_n levels.
C28_Witness ==
    /\ JustPublished
    /\ best_n_orders >= 2
    /\ Len(summary.bids) = best_n_orders
    /\ Len(summary.asks) = best_n_orders
    /\ summary.bids[1].price > summary.bids[best_n_orders].price
    /\ summary.asks[1].price < summary.asks[best_n_orders].price
    /\ Len(bids) > best_n_orders
    /\ Len(asks) > best_n_orders


\* ------------------------------------------- container claims, continued
\* What C29 asks of one result: as long as the side, and without placeholder.
ShortNotPadded(set, best) ==
    /\ Len(best) = Len(set)
    /\ \A i \in 1..Len(best) : best[i] # None

\* C29: best-N is short, not padded: when a side holds fewer than n levels,
\* get_best_n_bids(n) and get_best_n_asks(n) return as many elements as the
\* side holds levels, none of them a placeholder.
C29_BestNShortNotPadded ==
    \A n \in 0..MaxBestN :
        /\ Len(bids) < n => ShortNotPadded(bids, get_best_n_bids(bids, n))
        /\ Len(asks) < n => ShortNotPadded(asks, get_best_n_asks(asks, n))


\* C30: updates are infallible: update_bids and update_asks complete without
\* panicking for every level, every reachable container state and every
\* max_depth, 0 included.
C30_UpdatesInfallible ==
    op.side # "panicked"


\* --------------------------------------------------------- venue list parsing
\* The string given to parse_exchanges is a sequence of pieces: a comma, or a
\* word without comma, in one of its spellings.
Words == {"binance", "Binance", "BITSTAMP", "bitstamp", "kraken"}

Pieces == Words \cup {","}

Strings == UNION {[1..n -> Pieces] : n \in 0..MaxPieces}

\* str::to_lowercase on a word
to_lowercase(word) ==
    IF word = "Binance" THEN "binance"
    ELSE IF word = "BITSTAMP" THEN "bitstamp"
    ELSE word

RECURSIVE split(_, _)
\* str::split(','): the items between the commas, the item being read last;
\* a string without comma is one item, the empty string one empty item.
split(str, item) ==
    IF str = <<>> THEN <<item>>
    ELSE IF Head(str) = "," THEN <<item>> \o split(Tail(str), <<>>)
    ELSE split(Tail(str), Append(item, Head(str)))

\* from_str matching the item as it is written.
from_str_case_sensitive(item) ==
    IF Len(item) = 1 /\ item[1] = "bitstamp"
    THEN [ok |-> TRUE, exchange |-> "Bitstamp"]
    ELSE IF Len(item) = 1 /\ item[1] = "binance"
    THEN [ok |-> TRUE, exchange |-> "Binance"]
    ELSE [ok |-> FALSE, exchange |-> ""]

\* impl FromStr for Exchange: an item of several words, or of none, is no
\* venue name.
from_str(item) ==
    IF Len(item) = 1 /\ to_lowercase(item[1]) = "bitstamp"
    THEN [ok |-> TRUE, exchange |-> "Bitstamp"]
    ELSE IF Len(item) = 1 /\ to_lowercase(item[1]) = "binance"
    THEN [ok |-> TRUE, exchange |-> "Binance"]
    ELSE [ok |-> FALSE, exchange |-> ""]

\* Exchange::parse_exchanges: collect::<Result<Vec<_>, _>>() gives the first
\* error, or all the venues.
parse_exchanges(str) ==
    LET items == split(str, <<>>)
        results == [i \in 1..Len(items) |-> from_str(items[i])]
    IN  IF \E i \in 1..Len(items) : ~results[i].ok
        THEN [kind |-> "UnrecognizedExchange", exchanges |-> <<>>]
        ELSE [kind |-> "Ok",
              exchanges |-> [i \in 1..Len(items) |-> results[i].exchange]]

\* One call of parse_exchanges.
ParseExchanges ==
    /\ parsed = NoParse
    /\ parsed' = parse_exchanges(exchanges_arg)
    /\ UNCHANGED <<exchanges_arg, cmp_args, cmp_out, serverVars, mainVars,
                   driverVars, bookVars, adaptorVars, aggVars>>

ParseInit ==
    /\ bids = <<>>
    /\ asks = <<>>
    /\ max_depth = MaxDepth
    /\ op = NoOp
    /\ n_updates = 0
    /\ AdaptorIdle
    /\ AggIdle
    /\ ServerIdle
    /\ MainIdle
    /\ DriverIdle
    /\ exchanges_arg \in Strings
    /\ parsed = NoParse
    /\ cmp_args = <<>>
    /\ cmp_out = <<>>

ParseNext == ParseExchanges

SpecParse == ParseInit /\ [][ParseNext]_vars

\* The spellings of the name of a venue, which differ in case only.
Spellings(e) ==
    IF e = "Bitstamp" THEN {"BITSTAMP", "bitstamp"} ELSE {"binance", "Binance"}

\* The items of the string given: the words between its commas.
ItemsOf(str) == split(str, <<>>)

\* Item names venue e.
Names(item, e) == Len(item) = 1 /\ item[1] \in Spellings(e)

\* C31: parse_exchanges returns the venues in list order exactly when every
\* item is, case-insensitively, a supported venue name, and the error with no
\* partial list otherwise; parsing e.to_string() yields e.
C31_VenueListParsing ==
    /\ parsed # NoParse =>
        LET items == ItemsOf(exchanges_arg)
        IN  IF \A i \in 1..Len(items) : \E e \in ExchangeSet : Names(items[i], e)
            THEN /\ parsed.kind = "Ok"
                 /\ Len(parsed.exchanges) = Len(items)
                 /\ \A i \in 1..Len(items) :
                        Names(items[i], parsed.exchanges[i])
            ELSE /\ parsed.kind = "UnrecognizedExchange"
                 /\ parsed.exchanges = <<>>
    /\ \A e \in ExchangeSet :
        parse_exchanges(<<to_string(e)>>) = [kind |-> "Ok", exchanges |-> <<e>>]

\* A list of two venues written in upper and mixed case was parsed.
C31_Witness ==
    /\ exchanges_arg = <<"Binance", ",", "BITSTAMP">>
    /\ parsed = [kind |-> "Ok", exchanges |-> <<"Binance", "Bitstamp">>]


\* ------------------------------------------------------- order of the levels
\* One call of each comparison on the levels given: a with b, b with a, b
\* with c and a with c, as bids and as asks.
Compare ==
    /\ cmp_args # <<>>
    /\ cmp_out = <<>>
    /\ \E a \in {cmp_args[1]}, b \in {cmp_args[2]}, c \in {cmp_args[3]} :
        cmp_out' = [bid_ab |-> BidCmp(a, b), bid_ba |-> BidCmp(b, a),
                    bid_bc |-> BidCmp(b, c), bid_ac |-> BidCmp(a, c),
                    ask_ab |-> AskCmp(a, b), ask_ba |-> AskCmp(b, a),
                    ask_bc |-> AskCmp(b, c), ask_ac |-> AskCmp(a, c)]
    /\ UNCHANGED <<exchanges_arg, parsed, cmp_args, serverVars, mainVars,
                   driverVars, bookVars, adaptorVars, aggVars>>

CmpInit ==
    /\ bids = <<>>
    /\ asks = <<>>
    /\ max_depth = MaxDepth
    /\ op = NoOp
    /\ n_updates = 0
    /\ AdaptorIdle
    /\ AggIdle
    /\ ServerIdle
    /\ MainIdle
    /\ DriverIdle
    /\ exchanges_arg = <<>>
    /\ parsed = NoParse
    /\ cmp_args \in Levels \X Levels \X Levels
    /\ cmp_out = <<>>

CmpNext == Compare

SpecCmp == CmpInit /\ [][CmpNext]_vars

Compared == cmp_out # <<>>

\* The first two levels compared have the same price and the same quantity
\* and come from different venues.
TwinsOfTwoVenues ==
    /\ cmp_args[1].price = cmp_args[2].price
    /\ cmp_args[1].quantity = cmp_args[2].quantity
    /\ cmp_args[1].exchange # cmp_args[2].exchange

\* C32: for two bids of equal price and equal quantity, one from Binance and
\* one from Bitstamp, binance_bid.cmp(bitstamp_bid) is Greater and
\* bitstamp_bid.cmp(binance_bid) is Less.
C32_BidOrderAcrossVenues ==
    (Compared /\ TwinsOfTwoVenues /\ cmp_args[1].exchange = "Binance") =>
        /\ cmp_out.bid_ab = "Greater"
        /\ cmp_out.bid_ba = "Less"


\* C33: Bid::cmp and Ask::cmp are total orders: cmp(a, b) is the reverse of
\* cmp(b, a), and cmp(a, b) # Greater with cmp(b, c) # Greater gives
\* cmp(a, c) # Greater, levels of different venues at one price included.
C33_TotalOrder ==
    Compared =>
        /\ cmp_out.bid_ab = Reverse(cmp_out.bid_ba)
        /\ cmp_out.ask_ab = Reverse(cmp_out.ask_ba)
        /\ (cmp_out.bid_ab # "Greater" /\ cmp_out.bid_bc # "Greater")
               => cmp_out.bid_ac # "Greater"
        /\ (cmp_out.ask_ab # "Greater" /\ cmp_out.ask_bc # "Greater")
               => cmp_out.ask_ac # "Greater"

\* The first two levels compared have the same price and the same venue.
SameKeyCompared ==
    /\ cmp_args[1].price = cmp_args[2].price
    /\ cmp_args[1].exchange = cmp_args[2].exchange

LargestAtItsPrice(set, best) ==
    \A x \in Range(set) : x.price = best.price => x.quantity <= best.quantity

\* C35: quantity tie-break at equal price: of two levels of different venues
\* at one price with different quantities (the level just submitted and any
\* smaller one), the bid with the larger quantity compares Greater and the
\* ask with the larger quantity compares Less, so that the best bid (ask) has
\* the largest quantity among the levels sharing the best price.
C35_QuantityTieBreak ==
    /\ op.side \in {"bid", "ask"} =>
        \A b \in Levels :
            (/\ op.level.price = b.price
             /\ op.level.exchange # b.exchange
             /\ op.level.quantity > b.quantity) =>
                /\ BidCmp(op.level, b) = "Greater"
                /\ BidCmp(b, op.level) = "Less"
                /\ AskCmp(op.level, b) = "Less"
                /\ AskCmp(b, op.level) = "Greater"
    /\ bids # <<>> => LargestAtItsPrice(bids, get_best_bid(bids)[1])
    /\ asks # <<>> => LargestAtItsPrice(asks, get_best_ask(asks)[1])

\* After an update, the ask side holds both venues at its best price with
\* different quantities, the larger one first.
C35_Witness ==
    /\ op.side = "ask"
    /\ Len(asks) >= 2
    /\ asks[1].price = asks[2].price
    /\ asks[1].exchange # asks[2].exchange
    /\ asks[1].quantity > asks[2].quantity


\* ------------------------------------- Binance adaptor claims, continued
\* C36: socket liveness is independent of the handler: however long the
\* handler takes over a message, the stream task is never held up by it, so
\* a frame it has read can be handed over at once and the next frame (a ping
\* to answer, another text frame) be read.
C36_SocketLivenessIndependent ==
    (stream_pc = "sending" /\ handler_pc = "running") => ENABLED StreamSend


\* ------------------------------------- aggregator claims, continued
\* The head price and the threshold level kept with a cached top-N: those of
\* its first and last level, or the defaults while it was never filled.
CacheConsistent(cache, head_price, last, default_price, default_last) ==
    IF cache = <<>>
    THEN head_price = default_price /\ last = default_last
    ELSE /\ head_price = cache[1].price
         /\ SummaryLevel(last) = cache[Len(cache)]

\* C37: summary self-consistency: the spread of a published summary with
\* bids and asks is asks[0].price - bids[0].price of that summary, and
\* best_bid_price, last_bid (best_ask_price, last_ask) are the price of the
\* first and the level at the last position of best_n_bids (best_n_asks), or
\* 0 / f64::MAX and the default level while the cache was never filled.
C37_SummarySelfConsistency ==
    /\ (summary.published /\ summary.bids # <<>> /\ summary.asks # <<>>) =>
        summary.spread = summary.asks[1].price - summary.bids[1].price
    /\ CacheConsistent(best_n_bids, best_bid_price, last_bid, 0, DefaultBid)
    /\ CacheConsistent(best_n_asks, best_ask_price, last_ask, F64Max, DefaultAsk)

\* A summary with several levels on each side was published, the last cached
\* bid differing from the first.
C37_Witness ==
    /\ JustPublished
    /\ Len(summary.bids) >= 2
    /\ Len(summary.asks) >= 2
    /\ summary.bids[1] # summary.bids[Len(summary.bids)]
    /\ summary.bids = best_n_bids
    /\ summary.spread # F64Max


\* ------------------------------------------------ updates of two venues
\* An update of one side by a level of venue e.
SideUpdates(e) ==
    {[side |-> sd, level |-> l] :
        sd \in {"bid", "ask"}, l \in {v \in Levels : v.exchange = e}}

\* The update sequences one venue can deliver.
VenueSequences(e) ==
    UNION {[1..n -> SideUpdates(e)] : n \in 0..MaxVenueUpdates}

\* The update venue e delivers next.
NextOf(e) == venue_updates[e].given[venue_updates[e].done + 1]

\* The aggregator receives the next update of venue e and applies it to the
\* container of its side.
Deliver(e) ==
    /\ venue_updates[e].done < Len(venue_updates[e].given)
    /\ IF NextOf(e).side = "bid"
       THEN UpdateBids(NextOf(e).level)
       ELSE UpdateAsks(NextOf(e).level)
    /\ venue_updates' = [venue_updates EXCEPT ![e].done = @ + 1]
    /\ UNCHANGED <<price_chan, applied>>

InterleaveInit ==
    /\ bids = <<>>
    /\ asks = <<>>
    /\ max_depth \in 1..MaxDepth
    /\ op = NoOp
    /\ n_updates = 0
    /\ AdaptorIdle
    /\ AggIdle
    /\ ServerIdle
    /\ MainIdle
    /\ CallIdle
    /\ \E given \in [ExchangeSet -> UNION {VenueSequences(e) : e \in ExchangeSet}] :
        /\ \A e \in ExchangeSet : given[e] \in VenueSequences(e)
        /\ venue_updates = [e \in ExchangeSet |-> [given |-> given[e], done |-> 0]]
    /\ price_chan = <<>>
    /\ applied = NoUpdate

InterleaveNext == \E e \in ExchangeSet : Deliver(e)

SpecInterleave == InterleaveInit /\ [][InterleaveNext]_vars

\* The levels of one side among a sequence of updates, in order.
LevelsOf(side, updates) ==
    LET chosen == SelectSeq(updates, LAMBDA u : u.side = side)
    IN  [i \in 1..Len(chosen) |-> chosen[i].level]

\* Every venue has delivered all its updates.
AllDelivered ==
    \A e \in ExchangeSet : venue_updates[e].done = Len(venue_updates[e].given)

\* The updates of the venues one venue after the other.
VenueByVenue ==
    venue_updates[Exchanges[1]].given \o venue_updates[Exchanges[2]].given

\* C38: interleaving independence across venues: whatever interleaving the
\* updates of two venues arrive in, each venue's in its own order, the
\* containers end in the same state, that of one venue after the other.
C38_InterleavingIndependence ==
    AllDelivered =>
        /\ bids = ApplyBids(<<>>, LevelsOf("bid", VenueByVenue), max_depth)
        /\ asks = ApplyAsks(<<>>, LevelsOf("ask", VenueByVenue), max_depth)


\* ------------------------------------------------------------- the pipeline
\* The levels a snapshot of venue e lists: none of quantity 0.
SnapshotLevels(e) == {l \in VenueLevels(e) : l.quantity # 0}

\* The PriceLevelUpdates made from a snapshot of venue e.
SnapshotsOf(e) ==
    {u \in UNION {BatchesOf(e, nb) : nb \in 0..MaxBatchLevels} :
        /\ \A i \in 1..Len(u.bids) : u.bids[i] \in SnapshotLevels(e)
        /\ \A i \in 1..Len(u.asks) : u.asks[i] \in SnapshotLevels(e)}

DeltasOf(e) == UNION {BatchesOf(e, nb) : nb \in 0..MaxBatchLevels}

\* How many PriceLevelUpdates the handlers have sent.
Forwarded ==
    venue_updates[Exchanges[1]].done + venue_updates[Exchanges[2]].done

\* A sender that waits until the slowest receiver has left room.
send_waits_for_receivers(pos, slowest, cap) == pos - slowest < cap

\* broadcast Sender::send with a live receiver: the value is stored at once,
\* over the oldest one when the channel is full, wherever the receivers are.
send_is_ready(pos, slowest, cap) == TRUE

\* price_level_tx.send(PriceLevelUpdate::new(bids, asks)).await in a handler:
\* the first update of a venue is made from a snapshot, a later one from a
\* depth update or, after a reconnect, from a new snapshot.
HandlerForward(e, kind, u) ==
    /\ Forwarded < MaxForwarded
    /\ Len(price_chan) < PriceLevelBuffer
    /\ kind = "delta" => venue_updates[e].done > 0
    /\ price_chan' =
           Append(price_chan, [kind |-> kind, exchange |-> e, update |-> u])
    /\ venue_updates' = [venue_updates EXCEPT ![e].done = @ + 1]
    /\ UNCHANGED <<applied, bookVars, adaptorVars, aggVars, serviceVars>>

\* One iteration of the aggregator's loop: price_level_rx.recv() gives the
\* oldest update, which is applied, and the summary is sent on summary_tx,
\* whose only receiver here is the service's summary_rx, never read.
AggReceive ==
    /\ price_chan # <<>>
    /\ send_is_ready(tail_pos, 0, Capacity(summary_buffer))
    /\ HandleOrderBookUpdate(Head(price_chan).update)
    /\ price_chan' = Tail(price_chan)
    /\ applied' = Head(price_chan)
    /\ tail_pos' = IF agg_pc' = "running" THEN tail_pos + 1 ELSE tail_pos
    /\ UNCHANGED <<venue_updates, summary_buffer, server_pc, subs>>

\* spawn_bid_ask_service with the service built and no subscriber.
PipeInit ==
    /\ bids = <<>>
    /\ asks = <<>>
    /\ max_depth = MaxDepth
    /\ op = NoOp
    /\ n_updates = 0
    /\ AdaptorIdle
    /\ agg_pc = "running"
    /\ best_n_orders = MaxBestN
    /\ best_bid_price = 0
    /\ best_ask_price = F64Max
    /\ best_n_bids = <<>>
    /\ best_n_asks = <<>>
    /\ last_bid = DefaultBid
    /\ last_ask = DefaultAsk
    /\ summary = NoSummary
    /\ n_batches = 0
    /\ summary_buffer \in 1..MaxSummaryBuffer
    /\ tail_pos = 0
    /\ server_pc = "serving"
    /\ subs = [s \in Subscribers |-> NoSubscriber]
    /\ MainIdle
    /\ CallIdle
    /\ venue_updates = [e \in ExchangeSet |-> [given |-> <<>>, done |-> 0]]
    /\ price_chan = <<>>
    /\ applied = NoUpdate

PipeNext ==
    \/ \E e \in ExchangeSet :
           \E u \in SnapshotsOf(e) : HandlerForward(e, "snapshot", u)
    \/ \E e \in ExchangeSet :
           \E u \in DeltasOf(e) : HandlerForward(e, "delta", u)
    \/ AggReceive

SpecPipeline == PipeInit /\ [][PipeNext]_vars

\* The aggregator task is awake: it runs, an update waits on the shared
\* channel and summary_tx.send would not wait. AggReceive is enabled in
\* exactly these states.
AggCanReceive ==
    /\ agg_pc = "running"
    /\ n_batches < MaxBatches
    /\ price_chan # <<>>
    /\ send_is_ready(tail_pos, 0, Capacity(summary_buffer))

\* The steps in which the aggregator takes the oldest update off the shared
\* channel: the AggReceive steps, by what they do to the channel.
AggReceived ==
    /\ AggCanReceive
    /\ price_chan' = Tail(price_chan)
    /\ applied' = Head(price_chan)

\* The runtime polls a task that has been woken: an aggregator that can take
\* an update is scheduled.
SpecPipelineFair == SpecPipeline /\ WF_price_chan(AggReceived)

\* ---------------------------------------------------------- pipeline claims
\* The (price, venue) keys a side of an update lists.
ListedIn(levels, l) == \E i \in 1..Len(levels) : SameKey(levels[i], l)

\* C39: re-snapshot leaves no stale venue levels: once the aggregator has
\* applied a venue's new snapshot, the containers hold no level of that venue
\* that the snapshot does not list.
C39_NoStaleVenueLevels ==
    (applied.kind = "snapshot" /\ agg_pc = "running") =>
        /\ \A i \in 1..Len(bids) :
            bids[i].exchange = applied.exchange
                => ListedIn(applied.update.bids, bids[i])
        /\ \A i \in 1..Len(asks) :
            asks[i].exchange = applied.exchange
                => ListedIn(applied.update.asks, asks[i])


\* C40: pipeline progress: under fair scheduling of the aggregator, and
\* unless the aggregator task fails, the k-th PriceLevelUpdate a handler has
\* sent on the shared channel is eventually followed by the k-th published
\* summary, although the only receiver of the broadcast channel never reads.
C40_PipelineProgress ==
    \A k \in 1..MaxForwarded :
        (Forwarded >= k) ~> (tail_pos >= k \/ agg_pc # "running")

\* Every update sent was received and followed by a summary, more summaries
\* than the broadcast channel holds, none of them read.
C40_Witness ==
    /\ agg_pc = "running"
    /\ Forwarded = MaxForwarded
    /\ price_chan = <<>>
    /\ n_batches = MaxForwarded
    /\ tail_pos = MaxForwarded
    /\ tail_pos > Capacity(summary_buffer)
    /\ \A s \in Subscribers : subs[s] = NoSubscriber

====
